---- MODULE Spec2Model ----
(***************************************************************************)
(* Drug-GPT: the client pipeline of the analysis form (onSubmit in         *)
(* src/src/components/analysis-form.tsx) and the PubChem structure adapter *)
(* (src/src/services/pubchem.ts) it resolves the structure with.           *)
(*                                                                         *)
(* Strings are sequences of one-character strings.  JavaScript values are  *)
(* records [t, k, n, s]: t the typeof tag, k the kind of a number          *)
(* ("fin", "nan", "inf", "ninf"), n the value of a finite number (whole    *)
(* numbers only) and s the characters of a string.                         *)
(***************************************************************************)
EXTENDS Integers, Sequences, FiniteSets

(* ----------------------------------------------------------------------- *)
(* JavaScript values                                                       *)
(* ----------------------------------------------------------------------- *)
JUndef == [t |-> "undefined", k |-> "fin", n |-> 0, s |-> <<>>]

JNull == [t |-> "null", k |-> "fin", n |-> 0, s |-> <<>>]

JNum(i) == [t |-> "number", k |-> "fin", n |-> i, s |-> <<>>]

JNaN == [t |-> "number", k |-> "nan", n |-> 0, s |-> <<>>]

JInf == [t |-> "number", k |-> "inf", n |-> 0, s |-> <<>>]

JNegInf == [t |-> "number", k |-> "ninf", n |-> 0, s |-> <<>>]

JStr(str) == [t |-> "string", k |-> "fin", n |-> 0, s |-> str]

JTrue == [t |-> "boolean", k |-> "fin", n |-> 1, s |-> <<>>]

JFalse == [t |-> "boolean", k |-> "fin", n |-> 0, s |-> <<>>]

\* ToBoolean: undefined, null, false, NaN, 0 and "" are falsy.
Truthy(v) ==
    CASE v.t = "undefined" -> FALSE
      [] v.t = "null" -> FALSE
      [] v.t = "number" -> (v.k \in {"inf", "ninf"}) \/ (v.k = "fin" /\ v.n # 0)
      [] v.t = "string" -> v.s # <<>>
      [] v.t = "boolean" -> v.n = 1
      [] OTHER -> TRUE

WhiteSpace == {" "}

Digits == {"0", "1", "2", "3", "4", "5", "6", "7", "8", "9"}

DigitVal(c) ==
    CASE c = "0" -> 0 [] c = "1" -> 1 [] c = "2" -> 2 [] c = "3" -> 3
      [] c = "4" -> 4 [] c = "5" -> 5 [] c = "6" -> 6 [] c = "7" -> 7
      [] c = "8" -> 8 [] c = "9" -> 9

DigitChar(d) == <<"0", "1", "2", "3", "4", "5", "6", "7", "8", "9">>[d + 1]

RECURSIVE TrimStart(_)
TrimStart(str) ==
    IF str # <<>> /\ Head(str) \in WhiteSpace THEN TrimStart(Tail(str)) ELSE str

RECURSIVE TrimEnd(_)
TrimEnd(str) ==
    IF str # <<>> /\ str[Len(str)] \in WhiteSpace
    THEN TrimEnd(SubSeq(str, 1, Len(str) - 1))
    ELSE str

\* String.prototype.trim
Trim(str) == TrimEnd(TrimStart(str))

StartsWith(str, prefix) ==
    Len(str) >= Len(prefix) /\ SubSeq(str, 1, Len(prefix)) = prefix

RECURSIVE DigitPrefix(_)
DigitPrefix(str) ==
    IF str # <<>> /\ Head(str) \in Digits
    THEN <<Head(str)>> \o DigitPrefix(Tail(str))
    ELSE <<>>

RECURSIVE DecimalValue(_)
DecimalValue(ds) ==
    IF ds = <<>> THEN 0
    ELSE 10 * DecimalValue(SubSeq(ds, 1, Len(ds) - 1)) + DigitVal(ds[Len(ds)])

RECURSIVE NatToString(_)
NatToString(i) ==
    IF i < 10 THEN <<DigitChar(i)>>
    ELSE NatToString(i \div 10) \o <<DigitChar(i % 10)>>

\* ToString of a value, as parseFloat applies it to its argument.
ToString(v) ==
    CASE v.t = "string" -> v.s
      [] v.t = "undefined" -> <<"u", "n", "d", "e", "f", "i", "n", "e", "d">>
      [] v.t = "null" -> <<"n", "u", "l", "l">>
      [] v.t = "number" /\ v.k = "nan" -> <<"N", "a", "N">>
      [] v.t = "number" /\ v.k = "inf" -> <<"I", "n", "f", "i", "n", "i", "t", "y">>
      [] v.t = "number" /\ v.k = "ninf" ->
            <<"-", "I", "n", "f", "i", "n", "i", "t", "y">>
      [] v.t = "number" /\ v.k = "fin" ->
            IF v.n < 0 THEN <<"-">> \o NatToString(-v.n) ELSE NatToString(v.n)

\* parseFloat: leading white space is skipped, then an optional sign, then either
\* the literal Infinity or the longest run of digits; anything after is ignored;
\* no digits gives NaN.  (Inputs carry no fraction or exponent.)
parseFloat(v) ==
    LET str == TrimStart(ToString(v))
        neg == str # <<>> /\ Head(str) = "-"
        signed == str # <<>> /\ Head(str) \in {"-", "+"}
        rest == IF signed THEN Tail(str) ELSE str
        ds == DigitPrefix(rest)
    IN  IF StartsWith(rest, <<"I", "n", "f", "i", "n", "i", "t", "y">>)
        THEN (IF neg THEN JNegInf ELSE JInf)
        ELSE IF ds = <<>> THEN JNaN
        ELSE JNum(IF neg THEN -DecimalValue(ds) ELSE DecimalValue(ds))

\* No value is taken for NaN.
isNaNNever(v) == FALSE

isNaN(v) == v.t = "number" /\ v.k = "nan"

\* typeof cid !== 'number' || cid <= 0   (NaN <= 0 is false)
NotPositiveNumber(v) ==
    \/ v.t # "number"
    \/ v.k = "ninf"
    \/ (v.k = "fin" /\ v.n <= 0)

\* Number(v): a string must be a number as a whole ("" is 0), undefined is NaN,
\* null is 0.  (Inputs carry no fraction or exponent.)
ToNumber(v) ==
    CASE v.t = "number" -> v
      [] v.t = "undefined" -> JNaN
      [] v.t = "null" -> JNum(0)
      [] v.t = "boolean" -> JNum(v.n)
      [] v.t = "string" ->
            LET str == Trim(v.s)
                neg == str # <<>> /\ Head(str) = "-"
                rest == IF str # <<>> /\ Head(str) \in {"-", "+"} THEN Tail(str) ELSE str
            IN  IF str = <<>> THEN JNum(0)
                ELSE IF rest = <<"I", "n", "f", "i", "n", "i", "t", "y">>
                     THEN (IF neg THEN JNegInf ELSE JInf)
                ELSE IF rest # <<>> /\ DigitPrefix(rest) = rest
                     THEN JNum(IF neg THEN -DecimalValue(rest) ELSE DecimalValue(rest))
                ELSE JNaN

\* A thrown value: an Error with its message, or something that is no Error.
Err(msg) == [isError |-> TRUE, message |-> msg]

NotAnError == [isError |-> FALSE, message |-> ""]

\* The outcome of evaluating a block: a value, or an exception on its way up.
Return(v) == [threw |-> FALSE, val |-> v, err |-> NotAnError]

Raise(e) == [threw |-> TRUE, val |-> JNull, err |-> e]

Throw == Raise(Err("TypeError"))

(* ----------------------------------------------------------------------- *)
(* PubChem adapter, src/src/services/pubchem.ts                            *)
(* ----------------------------------------------------------------------- *)
\* catch (e) { }: the exception stops here.
Swallow(x) == [x EXCEPT !.threw = FALSE]

Kekule == <<"C", "1", "=", "C", "C", "=", "C", "C", "=", "C", "1">>

Benzene == <<"c", "1", "c", "c", "c", "c", "c", "1">>

C6H6 == <<"C", "6", "H", "6">>

\* What the identifier request (.../compound/smiles/<s>/cids/JSON) can come back
\* with.  net: fetch rejects (transport failure, timeout) or resolves; ok:
\* response.ok; body: response.json() rejects, yields null or yields an object;
\* fault: the error body carries Fault; idl: the shape of data.IdentifierList;
\* cid0: IdentifierList.CID[0].
CidResponse(net, ok, body, fault, idl, cid0) ==
    [net |-> net, ok |-> ok, body |-> body, fault |-> fault, idl |-> idl, cid0 |-> cid0]

CidValues == {JNum(7), JNum(0), JNum(-1), JStr(<<"7">>), JNull}

CidResponses ==
    {CidResponse("reject", FALSE, "null", FALSE, "missing", JUndef)}
    \cup {CidResponse("response", FALSE, b, f, "missing", JUndef) :
            b \in {"unparseable", "null", "object"}, f \in BOOLEAN}
    \cup {CidResponse("response", TRUE, b, FALSE, "missing", JUndef) :
            b \in {"unparseable", "null"}}
    \cup {CidResponse("response", TRUE, "object", FALSE, i, JUndef) :
            i \in {"missing", "noCID", "empty"}}
    \cup {CidResponse("response", TRUE, "object", FALSE, "list", c) : c \in CidValues}

\* Lines 50-57: read the error body for the log.  response.json() may reject and
\* errorData may be null (errorData.Fault then raises TypeError).
ErrorDetails(resp) ==
    IF resp.body \in {"unparseable", "null"} THEN Throw ELSE Return(JUndef)

\* The try block of getCidBySmiles, lines 38-77.
getCidBySmilesTry(smiles, resp) ==
    IF Trim(smiles) = <<>> THEN Return(JNull)
    ELSE IF resp.net = "reject" THEN Throw
    ELSE IF ~resp.ok
         THEN (IF Swallow(ErrorDetails(resp)).threw THEN Throw ELSE Return(JNull))
    ELSE IF resp.body = "unparseable" THEN Throw
    ELSE IF resp.body = "null" \/ resp.idl \in {"missing", "noCID", "empty"}
         THEN Return(JNull)
    ELSE IF NotPositiveNumber(resp.cid0) THEN Return(JNull)
    ELSE Return(resp.cid0)

getCidBySmilesNoCatch(smiles, resp) == getCidBySmilesTry(smiles, resp)

\* getCidBySmiles: the try block and its catch (lines 78-81), which returns null.
getCidBySmiles(smiles, resp) ==
    LET r == getCidBySmilesTry(smiles, resp)
    IN  IF r.threw THEN Return(JNull) ELSE r

\* The first request is issued only past the guard of lines 39-42.
CidFetchIssued(smiles) == Trim(smiles) # <<>>

\* One entry of PropertyTable.Properties.
Properties(cid, mf, iupac, cs, mw) ==
    [CID |-> cid, MolecularFormula |-> mf, IUPACName |-> iupac,
     CanonicalSMILES |-> cs, MolecularWeight |-> mw]

WeightValues ==
    {JStr(<<"7", "8">>), JStr(<<"0">>), JStr(<<"-", "5">>),
     JStr(<<"I", "n", "f", "i", "n", "i", "t", "y">>),
     JStr(<<"1", "2", "a", "b", "c">>), JStr(<<"a", "b", "c">>), JStr(<<>>),
     JNum(78), JNum(0), JNum(-5), JUndef}

PropertyEntries ==
    {Properties(c, f, JStr(<<"b", "e", "n", "z", "e", "n", "e">>), s, w) :
        c \in {JNum(7), JUndef}, f \in {JStr(C6H6), JStr(<<>>), JUndef},
        s \in {JStr(Benzene), JUndef}, w \in WeightValues}
    \cup {Properties(JNum(7), JStr(C6H6), JUndef, JStr(Benzene), JStr(<<"7", "8">>))}

NoProperties == Properties(JUndef, JUndef, JUndef, JUndef, JUndef)

\* What a property request can come back with; table: the shape of
\* data.PropertyTable ("nullEntry": Properties[0] is null).
PropResponse(net, ok, body, fault, table, props) ==
    [net |-> net, ok |-> ok, body |-> body, fault |-> fault, table |-> table,
     props |-> props]

PropResponses ==
    {PropResponse("reject", FALSE, "null", FALSE, "missing", NoProperties)}
    \cup {PropResponse("response", FALSE, b, f, "missing", NoProperties) :
            b \in {"unparseable", "null", "object"}, f \in BOOLEAN}
    \cup {PropResponse("response", TRUE, b, FALSE, "missing", NoProperties) :
            b \in {"unparseable", "null"}}
    \cup {PropResponse("response", TRUE, "object", FALSE, t, NoProperties) :
            t \in {"missing", "noProps", "empty", "nullEntry"}}
    \cup {PropResponse("response", TRUE, "object", FALSE, "entry", p) :
            p \in PropertyEntries}

\* One answer of each kind, for the runs of the form: a transport failure, an
\* error status, an empty list, an identifier.
FormCidResponses ==
    {CidResponse("reject", FALSE, "null", FALSE, "missing", JUndef),
     CidResponse("response", FALSE, "unparseable", FALSE, "missing", JUndef),
     CidResponse("response", TRUE, "object", FALSE, "empty", JUndef),
     CidResponse("response", TRUE, "object", FALSE, "list", JNum(7))}

\* Likewise: a transport failure, an incomplete entry, two complete entries.
FormPropResponses ==
    {PropResponse("reject", FALSE, "null", FALSE, "missing", NoProperties),
     PropResponse("response", TRUE, "object", FALSE, "entry",
                  Properties(JNum(7), JUndef, JUndef, JStr(Benzene), JStr(<<"7", "8">>))),
     PropResponse("response", TRUE, "object", FALSE, "entry",
                  Properties(JNum(7), JStr(C6H6), JUndef, JStr(Benzene), JStr(<<"7", "8">>))),
     PropResponse("response", TRUE, "object", FALSE, "entry",
                  Properties(JNum(7), JStr(C6H6), JUndef, JStr(Benzene), JNum(-5)))}

\* interface Molecule, lines 5-26.
Molecule(cid, mf, iupac, cs, mw) ==
    [cid |-> cid, molecularFormula |-> mf, iupacName |-> iupac,
     canonicalSmiles |-> cs, molecularWeight |-> mw]

\* Lines 127 and 271: an essential property is missing.
EssentialMissing(p) ==
    \/ ~Truthy(p.CID)
    \/ ~Truthy(p.MolecularFormula)
    \/ ~Truthy(p.CanonicalSMILES)
    \/ ~Truthy(p.MolecularWeight)

\* The try block of getPropertiesByCid, lines 98-158.
getPropertiesByCidTry(cid, resp) ==
    IF resp.net = "reject" THEN Throw
    ELSE IF ~resp.ok
         THEN (IF Swallow(ErrorDetails(resp)).threw THEN Throw ELSE Return(JNull))
    ELSE IF resp.body = "unparseable" THEN Throw
    ELSE IF resp.body = "null" \/ resp.table \in {"missing", "noProps", "empty"}
         THEN Return(JNull)
    ELSE IF resp.table = "nullEntry" THEN Throw
    ELSE IF EssentialMissing(resp.props) THEN Return(JNull)
    ELSE LET molecularWeight == parseFloat(resp.props.MolecularWeight)
             molecule == Molecule(resp.props.CID, resp.props.MolecularFormula,
                                  resp.props.IUPACName, resp.props.CanonicalSMILES,
                                  molecularWeight)
         IN  IF isNaN(molecularWeight) THEN Return(JNull)
             ELSE IF \/ ~Truthy(molecule.cid)
                     \/ ~Truthy(molecule.molecularFormula)
                     \/ ~Truthy(molecule.canonicalSmiles)
                  THEN Return(JNull)
             ELSE Return(molecule)

\* getPropertiesByCid: the pre-check (lines 92-95), the try block, the catch
\* (lines 159-162).
getPropertiesByCid(cid, resp) ==
    IF NotPositiveNumber(cid) THEN Return(JNull)
    ELSE LET r == getPropertiesByCidTry(cid, resp)
         IN  IF r.threw THEN Return(JNull) ELSE r

\* The single-request getMoleculeBySmiles: its try block, lines 242-283.
getMoleculeBySmilesDirectTry(smiles, resp) ==
    IF resp.net = "reject" THEN Throw
    ELSE IF ~resp.ok THEN Return(JNull)
    ELSE IF resp.body = "unparseable" THEN Throw
    ELSE IF resp.body = "null" \/ resp.table \in {"missing", "noProps", "empty"}
         THEN Return(JNull)
    ELSE IF resp.table = "nullEntry" THEN Throw
    ELSE IF EssentialMissing(resp.props) THEN Return(JNull)
    ELSE Return(Molecule(resp.props.CID, resp.props.MolecularFormula,
                         resp.props.IUPACName, resp.props.CanonicalSMILES,
                         parseFloat(resp.props.MolecularWeight)))

\* The single-request getMoleculeBySmiles with its catch, lines 240-289.
getMoleculeBySmilesDirect(smiles, resp) ==
    LET r == getMoleculeBySmilesDirectTry(smiles, resp)
    IN  IF r.threw THEN Return(JNull) ELSE r

\* The two-request getMoleculeBySmiles, lines 174-204, for given answers of the
\* two requests.  (The pipeline below runs it one suspension point at a time.)
getMoleculeBySmiles(smiles, cidResp, propResp) ==
    LET cid == getCidBySmiles(smiles, cidResp)
    IN  IF cid.threw THEN Throw
        ELSE IF cid.val = JNull \/ NotPositiveNumber(cid.val) THEN Return(JNull)
        ELSE getPropertiesByCid(cid.val, propResp)

(* ----------------------------------------------------------------------- *)
(* ChEMBL adapter, src/unnamed/part_000 and src/src/services/drugbank.ts   *)
(* ----------------------------------------------------------------------- *)

Aspirin == <<"a", "s", "p", "i", "r", "i", "n">>

Chembl25 == <<"C", "H", "E", "M", "B", "L", "2", "5">>

C9H8O4 == <<"C", "9", "H", "8", "O", "4">>

\* interface Drug
Drug(chemblId, name, maxPhase, molecularWeight, molecularFormula, description) ==
    [chemblId |-> chemblId, name |-> name, maxPhase |-> maxPhase,
     molecularWeight |-> molecularWeight, molecularFormula |-> molecularFormula,
     description |-> description]

\* zod: z.string(), z.number() (NaN is refused), and their optional() and
\* nullable() forms.
ZString(v) == v.t = "string"

ZNumber(v) == v.t = "number" /\ v.k # "nan"

ZOptional(ok, v) == v.t = "undefined" \/ ok

ZNullable(ok, v) == v.t = "null" \/ ok

\* DrugSchema of part_000, lines 36-43.
DrugSchema(drug) ==
    /\ ZString(drug.chemblId)
    /\ ZString(drug.name)
    /\ ZOptional(ZNullable(ZNumber(drug.maxPhase), drug.maxPhase), drug.maxPhase)
    /\ ZOptional(ZNumber(drug.molecularWeight), drug.molecularWeight)
    /\ ZOptional(ZString(drug.molecularFormula), drug.molecularFormula)
    /\ ZOptional(ZString(drug.description), drug.description)

\* molecule.molecule_properties of the ChEMBL payload.
MoleculeProperties(full_mwt, full_molformula) ==
    [full_mwt |-> full_mwt, full_molformula |-> full_molformula]

\* One entry of data.molecules, with the fields part_000 requests (line 66).
ChemblMolecule(id, pref_name, max_phase, props, molecule_type) ==
    [molecule_chembl_id |-> id, pref_name |-> pref_name, max_phase |-> max_phase,
     molecule_properties |-> props, molecule_type |-> molecule_type]

\* What axios.get can come back with.  net: the promise rejects (transport
\* failure, or a status outside 2xx) or resolves; status: response.status;
\* body: the shape of response.data ("nullEntry": molecules[0] is null).
ChemblResponse(net, status, body, molecule) ==
    [net |-> net, status |-> status, body |-> body, molecule |-> molecule]

\* props?.x
OptionalChain(obj, field) ==
    IF obj \in {JNull, JUndef} THEN JUndef ELSE obj[field]

\* The try block of getDrugByName in part_000, lines 57-117.
getDrugByNameTry(drugName, resp) ==
    IF resp.net = "reject" THEN Throw
    ELSE IF resp.status # 200 THEN Return(JNull)
    ELSE IF resp.body \in {"null", "noMolecules", "empty"} THEN Return(JNull)
    ELSE IF resp.body = "nullEntry" THEN Throw
    ELSE LET molecule == resp.molecule
             props == molecule.molecule_properties
             full_mwt == OptionalChain(props, "full_mwt")
             mw == IF Truthy(full_mwt) THEN parseFloat(full_mwt) ELSE JUndef
             formula == OptionalChain(props, "full_molformula")
             descriptionText ==
                 IF Truthy(molecule.molecule_type)
                 THEN JStr(<<"T", "y", "p", "e", ":", " ">> \o ToString(molecule.molecule_type))
                 ELSE JUndef
             drug == Drug(molecule.molecule_chembl_id,
                          IF Truthy(molecule.pref_name) THEN molecule.pref_name
                          ELSE JStr(drugName),
                          IF molecule.max_phase # JNull THEN ToNumber(molecule.max_phase)
                          ELSE JUndef,
                          IF Truthy(mw) /\ ~isNaN(mw) THEN mw ELSE JUndef,
                          formula,
                          descriptionText)
         IN  IF DrugSchema(drug) THEN Return(drug) ELSE Return(JNull)

\* The catch of lines 120-129 left out.
getDrugByNameNoCatch(drugName, resp) == getDrugByNameTry(drugName, resp)

\* getDrugByName of part_000, lines 54-130: the try block, and the catch, which
\* returns null.
getDrugByName(drugName, resp) ==
    LET r == getDrugByNameTry(drugName, resp)
    IN  IF r.threw THEN Return(JNull) ELSE r

\* One entry of data.molecules, with the fields drugbank.ts reads (lines 77-82).
ChemblEntry(chembl_id, pref_name, max_phase, mol_weight, mol_formula, indication, therapeutic_flag) ==
    [chembl_id |-> chembl_id, pref_name |-> pref_name, max_phase |-> max_phase,
     mol_weight |-> mol_weight, mol_formula |-> mol_formula,
     indication |-> indication, therapeutic_flag |-> therapeutic_flag]

\* The try block of getDrugByName in drugbank.ts, lines 58-86: the record is
\* built from the payload as it is and returned.
getDrugByNameDirectTry(drugName, resp) ==
    IF resp.net = "reject" THEN Throw
    ELSE IF resp.status # 200 THEN Return(JNull)
    ELSE IF resp.body \in {"null", "noMolecules", "empty"} THEN Return(JNull)
    ELSE IF resp.body = "nullEntry" THEN Throw
    ELSE LET molecule == resp.molecule
             description ==
                 IF Truthy(molecule.indication) \/ Truthy(molecule.therapeutic_flag)
                 THEN JStr((IF Truthy(molecule.indication)
                            THEN ToString(molecule.indication)
                            ELSE <<"N", "o", " ", "i", "n", "d", "i", "c", "a", "t", "i", "o", "n">>)
                           \o <<" ">>
                           \o (IF Truthy(molecule.therapeutic_flag)
                               THEN <<"T", "h", "e", "r", "a", "p", "e", "u", "t", "i", "c", ".">>
                               ELSE <<>>))
                 ELSE JUndef
         IN  Return(Drug(molecule.chembl_id,
                         IF Truthy(molecule.pref_name) THEN molecule.pref_name
                         ELSE JStr(drugName),
                         molecule.max_phase,
                         molecule.mol_weight,
                         molecule.mol_formula,
                         description))

\* getDrugByName of drugbank.ts, lines 55-92.
getDrugByNameDirect(drugName, resp) ==
    LET r == getDrugByNameDirectTry(drugName, resp)
    IN  IF r.threw THEN Return(JNull) ELSE r

Alphabet ==
    <<"a", "b", "c", "d", "e", "f", "g", "h", "i", "j", "k", "l", "m",
      "n", "o", "p", "q", "r", "s", "t", "u", "v", "w", "x", "y", "z">>

Capitals ==
    <<"A", "B", "C", "D", "E", "F", "G", "H", "I", "J", "K", "L", "M",
      "N", "O", "P", "Q", "R", "S", "T", "U", "V", "W", "X", "Y", "Z">>

\* String.prototype.toLowerCase
ToLowerCase(str) ==
    [i \in 1 .. Len(str) |->
        IF \E j \in 1 .. 26 : Capitals[j] = str[i]
        THEN Alphabet[CHOOSE j \in 1 .. 26 : Capitals[j] = str[i]]
        ELSE str[i]]

\* interface Drug of the placeholder, drugbank.ts lines 99-120; the weight is in
\* thousandths.
MockDrug(drugbankId, name, description, molecularFormula, averageMolecularWeight) ==
    [drugbankId |-> JStr(drugbankId), name |-> JStr(name),
     description |-> JStr(description), molecularFormula |-> JStr(molecularFormula),
     averageMolecularWeight |-> JNum(averageMolecularWeight)]

Paracetamol == <<"p", "a", "r", "a", "c", "e", "t", "a", "m", "o", "l">>

\* The keys of MOCK_DRUG_DATABASE that are modelled, in the order of the table.
MockDrugKeys == <<Aspirin, Paracetamol>>

\* MOCK_DRUG_DATABASE, lines 137-182: two of its entries, each description cut
\* to its first words.
MOCK_DRUG_DATABASE(key) ==
    CASE key = Aspirin ->
            MockDrug(<<"D", "B", "0", "0", "9", "4", "5">>,
                     <<"A", "s", "p", "i", "r", "i", "n">>,
                     <<"N", "S", "A", "I", "D">>, C9H8O4, 180158)
      [] key = Paracetamol ->
            MockDrug(<<"D", "B", "0", "0", "3", "1", "6">>,
                     <<"P", "a", "r", "a", "c", "e", "t", "a", "m", "o", "l">>,
                     <<"a", "n", "a", "l", "g", "e", "s", "i", "c">>,
                     <<"C", "8", "H", "9", "N", "O", "2">>, 151163)
      [] OTHER -> JUndef

\* The placeholder getDrugByName, drugbank.ts lines 191-222: the direct lookup
\* by key, then the first entry whose name matches.
getDrugByNameMock(drugName) ==
    LET lowerCaseDrugName ==
            IF drugName \in {JNull, JUndef} THEN JUndef
            ELSE JStr(Trim(ToLowerCase(drugName.s)))
    IN  IF ~Truthy(lowerCaseDrugName) THEN Return(JNull)
        ELSE LET direct == MOCK_DRUG_DATABASE(lowerCaseDrugName.s)
                 byName == {i \in 1 .. Len(MockDrugKeys) :
                              ToLowerCase(MOCK_DRUG_DATABASE(MockDrugKeys[i]).name.s)
                                  = lowerCaseDrugName.s}
                 drug == IF direct # JUndef THEN direct
                         ELSE IF byName # {}
                         THEN MOCK_DRUG_DATABASE(
                                  MockDrugKeys[CHOOSE i \in byName : \A j \in byName : i <= j])
                         ELSE JUndef
             IN  IF drug # JUndef THEN Return(drug) ELSE Return(JNull)

(* ----------------------------------------------------------------------- *)
(* Molprop adapter, src/src/services/pubchem.ts lines 291-388              *)
(* ----------------------------------------------------------------------- *)

\* MolpropResult; numbers are in thousandths.
MolpropResult(logP, solubility, toxicityScore) ==
    [logP |-> logP, solubility |-> solubility, toxicityScore |-> toxicityScore]

\* MolpropResultSchema, lines 303-308: an object whose three properties are
\* numbers or absent (safeParse keeps these three and drops any other key).
MolpropResultSchema(data) ==
    /\ data \notin {JNull, JUndef}
    /\ ZOptional(ZNumber(data.logP), data.logP)
    /\ ZOptional(ZNumber(data.solubility), data.solubility)
    /\ ZOptional(ZNumber(data.toxicityScore), data.toxicityScore)

\* Math.random(), in thousandths: some value of [0, 1).
MathRandom == {0, 250, 999}

\* What the Molprop endpoint can come back with; body: response.json() rejects
\* or yields data.
MolpropResponse(net, ok, body, data) ==
    [net |-> net, ok |-> ok, body |-> body, data |-> data]

\* The try block of fetchMolpropPrediction, lines 332-359.
fetchMolpropPredictionTry(smiles, resp) ==
    IF resp.net = "reject" THEN Throw
    ELSE IF ~resp.ok THEN Return(JNull)
    ELSE IF resp.body = "unparseable" THEN Throw
    ELSE IF ~MolpropResultSchema(resp.data) THEN Return(JNull)
    ELSE Return(resp.data)

\* fetchMolpropPrediction, lines 314-365.  url: process.env.MOLPROP_API_URL is
\* "unset", the "default" URL or a "custom" one; rnd: the three values
\* Math.random() gives when the mock data is made up.
fetchMolpropPrediction(smiles, url, resp, rnd) ==
    IF url \in {"unset", "default"}
    THEN Return(MolpropResult(JNum(rnd[1] * 5), JNum(rnd[2] * (-5)), JNum(rnd[3])))
    ELSE LET r == fetchMolpropPredictionTry(smiles, resp)
         IN  IF r.threw THEN Return(JNull) ELSE r

\* getMolpropAnalysis, lines 375-388.
getMolpropAnalysis(smiles, url, resp, rnd) ==
    LET result == fetchMolpropPrediction(smiles, url, resp, rnd)
    IN  IF result.threw THEN Return(JNull)
        ELSE IF result.val = JNull THEN Return(JNull)
        ELSE result

(* ----------------------------------------------------------------------- *)
(* DeepPurpose adapter, src/src/services/deeppurpose.ts                    *)
(* ----------------------------------------------------------------------- *)

\* DeepPurposeResult; confidence is in hundredths.
DeepPurposeResult(predictedPurpose, confidence) ==
    [predictedPurpose |-> predictedPurpose, confidence |-> confidence]

AspirinSmiles ==
    <<"C", "C", "(", "=", "O", ")", "O", "C", "1", "=", "C", "C", "=", "C",
      "C", "=", "C", "1", "C", "(", "=", "O", ")", "O">>

ChlorcyclizineSmiles ==
    <<"C", "N", "1", "C", "C", "N", "(", "C", "C", "1", ")", "C", "(", "C",
      "1", "=", "C", "C", "=", "C", "C", "=", "C", "1", ")", "C", "1", "=",
      "C", "C", "=", "C", "(", "C", "l", ")", "C", "=", "C", "1">>

ChloroquineSmiles ==
    <<"C", "C", "N", "(", "C", "C", ")", "C", "C", "C", "C", "(", "C", ")",
      "N", "C", "1", "=", "C", "2", "C", "=", "C", "C", "(", "=", "C", "C",
      "2", "=", "N", "C", "=", "C", "1", ")", "C", "l">>

\* MOCK_DEEPPURPOSE_RESULTS, lines 24-42; each text is cut to its first words.
MOCK_DEEPPURPOSE_RESULTS(smiles) ==
    CASE smiles = Benzene ->
            DeepPurposeResult(JStr(<<"s", "o", "l", "v", "e", "n", "t">>), JNum(60))
      [] smiles = AspirinSmiles ->
            DeepPurposeResult(JStr(<<"a", "n", "t", "i", "-", "i", "n", "f", "l", "a", "m", "m", "a", "t", "o", "r", "y">>), JNum(85))
      [] smiles = ChlorcyclizineSmiles ->
            DeepPurposeResult(JStr(<<"a", "n", "t", "i", "h", "i", "s", "t", "a", "m", "i", "n", "e">>), JNum(78))
      [] smiles = ChloroquineSmiles ->
            DeepPurposeResult(JStr(<<"a", "n", "t", "i", "m", "a", "l", "a", "r", "i", "a", "l">>), JNum(88))
      [] OTHER -> JUndef

\* The placeholder getDeepPurposeAnalysis, lines 50-76.
getDeepPurposeAnalysisMock(smiles) ==
    LET result == MOCK_DEEPPURPOSE_RESULTS(smiles)
    IN  IF result # JUndef THEN Return(result)
        ELSE IF Len(smiles) > 10
             THEN Return(DeepPurposeResult(JStr(<<"G", "e", "n", "e", "r", "i", "c", " ", "p", "r", "e", "d", "i", "c", "t", "i", "o", "n">>), JNum(50)))
        ELSE Return(JNull)

\* What the prompt call can come back with: call "throws" or "returns"; output
\* is result.output (null, or an object).
PromptResult(call, output) == [call |-> call, output |-> output]

\* The try block of the Genkit getDeepPurposeAnalysis, lines 130-142.
getDeepPurposeAnalysisTry(smiles, result) ==
    IF result.call = "throws" THEN Throw
    ELSE IF result.output \in {JNull, JUndef} THEN Return(JNull)
    ELSE IF result.output.predictedPurpose.t # "string" THEN Return(JNull)
    ELSE Return(result.output)

\* The Genkit getDeepPurposeAnalysis, lines 127-147.
getDeepPurposeAnalysis(smiles, result) ==
    LET r == getDeepPurposeAnalysisTry(smiles, result)
    IN  IF r.threw THEN Return(JNull) ELSE r

(* ----------------------------------------------------------------------- *)
(* The analysis flow, @/ai/flows/analyze-drug-candidate                    *)
(* ----------------------------------------------------------------------- *)
NarrativeText == <<"o", "k">>

\* What one invocation of the flow meets: call, whether the request or the model
\* call errors; chembl and deepPurpose, whether that lookup returned data;
\* narrative, the text the model produced (a string, "" or nothing).
FlowOutcome(call, chembl, deepPurpose, narrative) ==
    [call |-> call, chembl |-> chembl, deepPurpose |-> deepPurpose,
     narrative |-> narrative]

FlowOutcomes ==
    {FlowOutcome("ok", b, d, JStr(NarrativeText)) : b \in BOOLEAN, d \in BOOLEAN}
    \cup {FlowOutcome("ok", TRUE, TRUE, JStr(<<>>)),
          FlowOutcome("ok", FALSE, FALSE, JUndef),
          FlowOutcome("error", TRUE, TRUE, JUndef),
          FlowOutcome("error", FALSE, FALSE, JUndef)}

\* AnalyzeDrugCandidateOutput, as the form reads it (lines 170-172, 296-350).
AnalysisOutput(narrative, chembl, deepPurpose) ==
    [synthesizedAnalysis |-> narrative, chemblData |-> chembl,
     deepPurposeData |-> deepPurpose]

\* The flow returns the composite result, or throws when the call errors or the
\* model gave no narrative.
analyzeDrugCandidate(input, o) ==
    IF o.call = "error" THEN Raise(Err("Analysis request failed"))
    ELSE IF ~Truthy(o.narrative)
         THEN Raise(Err("AI model did not generate an analysis"))
    ELSE Return(AnalysisOutput(o.narrative, o.chembl, o.deepPurpose))

(* ----------------------------------------------------------------------- *)
(* The analysis form, src/src/components/analysis-form.tsx                 *)
(* ----------------------------------------------------------------------- *)
MaxRuns == 2

\* pubchem.ts line 187: setTimeout(resolve, 200)
DelayMs == 200

RunIds == 1 .. MaxRuns

FormValues(smiles, targetProtein, query) ==
    [smiles |-> smiles, targetProtein |-> targetProtein, query |-> query]

Query == <<"A", "n", "a", "l", "y", "z", "e">>

FormInputs ==
    {FormValues(<<>>, <<>>, Query),
     FormValues(<<" ">>, <<>>, Query),
     FormValues(Kekule, <<>>, Query),
     FormValues(Kekule, <<"E", "G", "F", "R">>, <<"t", "o", "x", "?">>),
     FormValues(<<"C", "6", "H", "1", "2", "O", "6">>, <<"E", "G", "F", "R">>, Query)}

NoValues == FormValues(<<>>, <<>>, <<>>)

\* formSchema, lines 47-51: smiles min(1), query min(5).
formSchema(values) == Len(values.smiles) >= 1 /\ Len(values.query) >= 5

\* [A-Z], [a-z], [2-9] and \s of the regular expressions of lines 57 and 60.
IsCapital(c) == \E j \in 1 .. 26 : Capitals[j] = c

IsSmall(c) == \E j \in 1 .. 26 : Alphabet[j] = c

\* Line 60, first alternative, matched at position i: [A-Z][a-z]?\d{2,}
MatchesSymbolDigits(str, i) ==
    /\ IsCapital(str[i])
    /\ \E j \in {i + 1, i + 2} :
          /\ j + 1 <= Len(str)
          /\ j = i + 2 => IsSmall(str[i + 1])
          /\ str[j] \in Digits
          /\ str[j + 1] \in Digits

\* Line 60, second alternative, matched at position i:
\* [A-Z][a-z]?[2-9](?![a-zA-Z\(])
MatchesSymbolCount(str, i) ==
    /\ IsCapital(str[i])
    /\ \E j \in {i + 1, i + 2} :
          /\ j <= Len(str)
          /\ j = i + 2 => IsSmall(str[i + 1])
          /\ str[j] \in (Digits \ {"0", "1"})
          /\ j + 1 <= Len(str) =>
                 ~(IsCapital(str[j + 1]) \/ IsSmall(str[j + 1]) \/ str[j + 1] = "(")

\* The formula is always taken for a structure string.
seemsLikeFormulaNever(input) == FALSE

\* seemsLikeFormula, lines 56-61.
seemsLikeFormula(input) ==
    IF \E i \in 1 .. Len(input) : input[i] \in WhiteSpace THEN FALSE
    ELSE \E i \in 1 .. Len(input) :
            MatchesSymbolDigits(input, i) \/ MatchesSymbolCount(input, i)

\* Lines 100-103: the description of the "PubChem Error" toast (each text stands
\* for the sentence around the quoted input).
ErrorDescription(smiles) ==
    IF seemsLikeFormula(smiles) THEN "looks like a molecular formula"
    ELSE "Could not retrieve molecule details"

\* The analysis asked about the string as the user typed it.
AnalysisInputRaw(moleculeData, values) ==
    [smiles |-> JStr(values.smiles),
     targetProtein |-> values.targetProtein,
     query |-> values.query]

\* AnalyzeDrugCandidateInput, lines 128-132.
AnalysisInput(moleculeData, values) ==
    [smiles |-> IF moleculeData = JNull THEN JUndef ELSE moleculeData.canonicalSmiles,
     targetProtein |-> values.targetProtein,
     query |-> values.query]

PubChemError == "Failed to fetch PubChem data. Check SMILES validity."

NoError == "null"

ResolutionFailedNever(moleculeData) == FALSE

\* Line 98: if (!moleculeData)
ResolutionFailed(moleculeData) == moleculeData = JNull

CatchErrorDropped(thrown) == NoError

\* Lines 143-144: the Error the catch block stores.
CatchError(thrown) ==
    IF thrown.isError THEN thrown.message
    ELSE "An unexpected error occurred during analysis."

VARIABLES
    analysisResult,   \* useState, line 65
    pubChemDetails,   \* useState, line 66
    isLoading,        \* useState, line 67
    loadingStage,     \* useState, line 68
    error,            \* useState, line 69: the message of the Error, or NoError
    activeTab,        \* useState, line 70
    toast,            \* title of the last toast shown
    runs,             \* the submissions: each one's position in handleSubmit/onSubmit
    impl,             \* which getMoleculeBySmiles of pubchem.ts is built in
    ev,               \* the step just taken (what the console.log lines report)
    terminal,         \* a resolution failure ended a run and no run has started since
    fanout,           \* the three secondary lookups of one analysis, and its slots
    svc               \* the adapter calls made last, with what they returned

formVars == <<analysisResult, pubChemDetails, isLoading, loadingStage, error, activeTab, toast>>

\* The state of the form's pipeline, and the state of the services on their own.
pipelineVars == <<formVars, runs, ev, terminal>>

labVars == <<fanout, svc>>

vars == <<analysisResult, pubChemDetails, isLoading, loadingStage, error, activeTab, toast, runs, impl, ev, terminal, fanout, svc>>

Run(pc, values, closureStage, cid, moleculeData, resolution, calls, outcome) ==
    [pc |-> pc, values |-> values, closureStage |-> closureStage, cid |-> cid,
     moleculeData |-> moleculeData, resolution |-> resolution,
     cidCalls |-> calls[1], propCalls |-> calls[2], analysisCalls |-> calls[3],
     waited |-> calls[4], outcome |-> outcome,
     input |-> AnalysisInput(JNull, NoValues)]

NoRun == Run("unused", NoValues, "idle", JNull, JNull, "pending", <<0, 0, 0, 0>>, "none")

\* A run that has returned keeps its outcome, its counts, the identifier it
\* looked up and the time it waited before the property request.
Ended(run, resolution, outcome) ==
    Run("ended", NoValues, "idle", run.cid, JNull, resolution,
        <<run.cidCalls, run.propCalls, run.analysisCalls, run.waited>>, outcome)

\* caught: a catch block of the adapter handled an exception in this step;
\* description: the description of the destructive toast of lines 105-109, when
\* this step showed it.
Event(kind, r, record, o) ==
    [kind |-> kind, run |-> r, record |-> record, call |-> o.call,
     chembl |-> o.chembl, deepPurpose |-> o.deepPurpose, narrative |-> o.narrative,
     caught |-> FALSE, description |-> "none"]

NoOutcome == FlowOutcome("none", FALSE, FALSE, JUndef)

Active(r) == runs[r].pc \in {"cid", "delay", "props", "analysis"}

\* The three secondary lookups.
Lookups == {"chembl", "molprop", "deepPurpose"}

\* The slots of the composite result; an absent slot is null.
Slots(chemblData, molpropData, deepPurposeData) ==
    [chembl |-> chemblData, molprop |-> molpropData, deepPurpose |-> deepPurposeData]

GoodMolecule ==
    ChemblMolecule(JStr(Chembl25), JStr(Aspirin), JNum(4),
                   MoleculeProperties(JStr(<<"1", "8", "0">>), JStr(C9H8O4)),
                   JStr(<<"S", "m", "a", "l", "l">>))

GoodChembl == ChemblResponse("resolve", 200, "entry", GoodMolecule)

GoodMolprop ==
    [url |-> "custom",
     resp |-> MolpropResponse("resolve", TRUE, "object",
                              MolpropResult(JNum(2500), JNum(-3000), JNum(100))),
     rnd |-> <<0, 0, 0>>]

MockMolprop == [GoodMolprop EXCEPT !.url = "unset", !.rnd = <<0, 250, 999>>]

GoodDeepPurpose ==
    PromptResult("returns", DeepPurposeResult(JStr(<<"N", "S", "A", "I", "D">>), JNum(85)))

\* What each lookup's upstream answers in one analysis: the good answer, or one
\* that makes the lookup fail.
FanoutUpstreams ==
    [chembl : {GoodChembl,
               ChemblResponse("reject", 500, "null", GoodMolecule),
               ChemblResponse("resolve", 200, "nullEntry", GoodMolecule),
               ChemblResponse("resolve", 200, "entry",
                              [GoodMolecule EXCEPT !.molecule_chembl_id = JUndef])},
     molprop : {GoodMolprop, MockMolprop,
                [GoodMolprop EXCEPT !.resp.net = "reject"],
                [GoodMolprop EXCEPT !.resp.body = "unparseable"],
                [GoodMolprop EXCEPT !.resp.data.logP = JStr(<<"h", "i", "g", "h">>)]},
     deepPurpose : {GoodDeepPurpose,
                    PromptResult("throws", JNull),
                    PromptResult("returns", JNull),
                    PromptResult("returns", DeepPurposeResult(JUndef, JNum(85)))}]

NoUpstream ==
    [chembl |-> GoodChembl, molprop |-> GoodMolprop, deepPurpose |-> GoodDeepPurpose]

Fanout(phase, upstream, pending, slots, raised) ==
    [phase |-> phase, upstream |-> upstream, pending |-> pending, slots |-> slots,
     raised |-> raised]

NoFanout == Fanout("idle", NoUpstream, {}, Slots(JNull, JNull, JNull), FALSE)

\* Two calls of one adapter function with the same key against the same
\* upstream: what was called, how many calls have returned, what each returned.
ServiceCalls(fn, key, upstream, calls, first, second) ==
    [fn |-> fn, key |-> key, upstream |-> upstream, calls |-> calls,
     first |-> first, second |-> second]

NoCalls == ServiceCalls("none", JUndef, JUndef, 0, Return(JNull), Return(JNull))

Init ==
    /\ fanout = NoFanout
    /\ svc = NoCalls
    /\ analysisResult = JNull
    /\ pubChemDetails = JNull
    /\ isLoading = FALSE
    /\ loadingStage = "idle"
    /\ error = NoError
    /\ activeTab = "pubchem"
    /\ toast = "none"
    /\ runs = [r \in RunIds |-> NoRun]
    /\ impl \in {"twoStep", "direct"}
    /\ ev = Event("init", 0, JNull, NoOutcome)
    /\ terminal = FALSE

\* The run begins without clearing what the previous run left.
RunStartedNoReset ==
    /\ isLoading' = TRUE
    /\ loadingStage' = "pubchem"
    /\ activeTab' = "pubchem"
    /\ UNCHANGED <<error, analysisResult, pubChemDetails, toast>>

\* Lines 84-89: onSubmit begins.
RunStarted ==
    /\ isLoading' = TRUE
    /\ error' = NoError
    /\ analysisResult' = JNull
    /\ pubChemDetails' = JNull
    /\ loadingStage' = "pubchem"
    /\ activeTab' = "pubchem"
    /\ UNCHANGED toast

\* Lines 98-114 and the finally block, lines 160-164.
ResolutionFailedPath ==
    /\ toast' = "PubChem Error"
    /\ error' = PubChemError
    /\ loadingStage' = "idle"
    /\ isLoading' = FALSE

\* The catch block without the finally block: the form stays loading.
CatchPathNoFinally(thrown, closureStage) ==
    /\ error' = CatchError(thrown)
    /\ toast' = "Analysis Failed"
    /\ analysisResult' = JNull
    /\ activeTab' = IF closureStage = "pubchem" THEN "pubchem" ELSE "analysis"
    /\ UNCHANGED <<loadingStage, isLoading>>

\* The catch block, lines 141-158, and the finally block, lines 160-164.
\* loadingStage is the value the closure of onSubmit captured.
CatchPath(thrown, closureStage) ==
    /\ error' = CatchError(thrown)
    /\ toast' = "Analysis Failed"
    /\ analysisResult' = JNull
    /\ activeTab' = IF closureStage = "pubchem" THEN "pubchem" ELSE "analysis"
    /\ loadingStage' = "idle"
    /\ isLoading' = FALSE

\* Lines 116-133: the structure is stored and analyzeDrugCandidate is called.
ResolvedPath(moleculeData) ==
    /\ pubChemDetails' = moleculeData
    /\ toast' = "PubChem Data Fetched"
    /\ loadingStage' = "analysis"
    /\ activeTab' = "analysis"
    /\ UNCHANGED <<analysisResult, isLoading, error>>

\* The user activates the submit button (line 248, disabled while isLoading) and
\* handleSubmit (line 191) starts validating the values; onSubmit is the one of
\* the render on screen, so it sees that render's loadingStage.
Submit(values) ==
    /\ ~isLoading
    /\ \E r \in RunIds :
        /\ runs[r].pc = "unused"
        /\ \A q \in RunIds : q < r => runs[q].pc # "unused"
        /\ runs' = [runs EXCEPT ![r] =
                      Run("validating", values, loadingStage, JNull, JNull, "pending",
                          <<0, 0, 0, 0>>, "none")]
        /\ ev' = Event("submit", r, JNull, NoOutcome)
    /\ UNCHANGED <<formVars, impl, terminal, labVars>>

\* What onSubmit does once getMoleculeBySmiles (awaited at line 94) has settled
\* with `res`: the catch block when it threw, lines 98-114 when it is null,
\* lines 116-133 otherwise.
AfterResolution(r, res, caught) ==
    LET run == runs[r]
    IN  IF res.threw
        THEN /\ CatchPath(res.err, run.closureStage)
             /\ runs' = [runs EXCEPT ![r] = Ended(run, "threw", "exception")]
             /\ ev' = [Event("exception", r, JNull, NoOutcome) EXCEPT !.caught = caught]
             /\ UNCHANGED <<pubChemDetails, terminal>>
        ELSE IF ResolutionFailed(res.val)
        THEN /\ ResolutionFailedPath
             /\ runs' = [runs EXCEPT ![r] = Ended(run, "null", "resolution-failed")]
             /\ ev' = [Event("resolution-failed", r, JNull, NoOutcome)
                          EXCEPT !.caught = caught,
                                 !.description = ErrorDescription(run.values.smiles)]
             /\ terminal' = TRUE
             /\ UNCHANGED <<analysisResult, pubChemDetails, activeTab>>
        ELSE /\ ResolvedPath(res.val)
             /\ runs' = [runs EXCEPT ![r] =
                           [run EXCEPT !.pc = "analysis", !.moleculeData = res.val,
                                       !.resolution =
                                           IF res.val = JNull THEN "null" ELSE "record",
                                       !.analysisCalls = @ + 1,
                                       !.input = AnalysisInput(res.val, run.values)]]
             /\ ev' = [Event("resolved", r, res.val, NoOutcome) EXCEPT !.caught = caught]
             /\ UNCHANGED <<terminal>>

\* handleSubmit's validation finishes (the validations of successive submit
\* events finish in the order of the events).  Invalid values: onSubmit is not
\* called.
\* Valid values: onSubmit runs to its first suspension point, lines 83-94.  The
\* two-request adapter returns null without a request when the string is blank
\* (lines 39-42, 180-183), and onSubmit goes on to lines 98-114 in the same task.
Validated(r) ==
    /\ runs[r].pc = "validating"
    /\ \A q \in RunIds : q < r => runs[q].pc # "validating"
    /\ UNCHANGED <<impl, labVars>>
    /\ IF ~formSchema(runs[r].values)
       THEN /\ runs' = [runs EXCEPT ![r] = Ended(runs[r], "pending", "rejected")]
            /\ ev' = Event("rejected", r, JNull, NoOutcome)
            /\ UNCHANGED <<formVars, terminal>>
       ELSE IF impl = "twoStep" /\ ~CidFetchIssued(runs[r].values.smiles)
       THEN /\ analysisResult' = JNull
            /\ pubChemDetails' = JNull
            /\ activeTab' = "pubchem"
            /\ ResolutionFailedPath
            /\ runs' = [runs EXCEPT ![r] = Ended(runs[r], "null", "resolution-failed")]
            /\ ev' = [Event("resolution-failed", r, JNull, NoOutcome)
                         EXCEPT !.description = ErrorDescription(runs[r].values.smiles)]
            /\ terminal' = TRUE
       ELSE /\ RunStarted
            /\ runs' = [runs EXCEPT ![r] =
                          IF impl = "twoStep"
                          THEN [@ EXCEPT !.pc = "cid", !.cidCalls = @ + 1]
                          ELSE [@ EXCEPT !.pc = "props", !.propCalls = @ + 1]]
            /\ ev' = Event("started", r, JNull, NoOutcome)
            /\ terminal' = FALSE

\* The identifier request issued once more when it brought no identifier.
CidSettledRetried(r, resp) ==
    /\ runs[r].pc = "cid"
    /\ runs[r].cidCalls < 2
    /\ runs' = [runs EXCEPT ![r] = [@ EXCEPT !.cidCalls = @ + 1]]
    /\ ev' = Event("cid", r, JNull, NoOutcome)
    /\ UNCHANGED <<formVars, impl, terminal, labVars>>

\* The identifier request settles (line 46 on); lines 177-183 of getMoleculeBySmiles.
CidSettled(r, resp) ==
    /\ runs[r].pc = "cid"
    /\ UNCHANGED <<impl, labVars>>
    /\ LET cid == getCidBySmiles(runs[r].values.smiles, resp)
       IN  IF ~cid.threw /\ ~(cid.val = JNull \/ NotPositiveNumber(cid.val))
           THEN /\ runs' = [runs EXCEPT ![r] = [@ EXCEPT !.pc = "delay", !.cid = cid.val]]
                /\ ev' = Event("cid", r, JNull, NoOutcome)
                /\ UNCHANGED <<formVars, terminal>>
           ELSE AfterResolution(r, IF cid.threw THEN cid ELSE Return(JNull),
                                getCidBySmilesTry(runs[r].values.smiles, resp).threw)

\* The delay left out: the property request follows the identifier at once.
DelaySkipped(r) ==
    /\ runs[r].pc = "delay"
    /\ runs' = [runs EXCEPT ![r] = [@ EXCEPT !.pc = "props", !.propCalls = @ + 1]]
    /\ ev' = Event("delay", r, JNull, NoOutcome)
    /\ UNCHANGED <<formVars, impl, terminal, labVars>>

\* The timer of line 187 fires, DelayMs after it was set, and the property
\* request is issued.
DelayElapsed(r) ==
    /\ runs[r].pc = "delay"
    /\ runs' = [runs EXCEPT ![r] = [@ EXCEPT !.pc = "props", !.propCalls = @ + 1,
                                            !.waited = @ + DelayMs]]
    /\ ev' = Event("delay", r, JNull, NoOutcome)
    /\ UNCHANGED <<formVars, impl, terminal, labVars>>

\* The property request settles: lines 191-203 of the two-request adapter, or
\* the whole of the single-request one; then onSubmit resumes at line 95.
PropsSettled(r, resp) ==
    /\ runs[r].pc = "props"
    /\ UNCHANGED <<impl, labVars>>
    /\ AfterResolution(r,
                       IF impl = "twoStep"
                       THEN getPropertiesByCid(runs[r].cid, resp)
                       ELSE getMoleculeBySmilesDirect(runs[r].values.smiles, resp),
                       IF impl = "twoStep"
                       THEN getPropertiesByCidTry(runs[r].cid, resp).threw
                       ELSE getMoleculeBySmilesDirectTry(runs[r].values.smiles, resp).threw)

\* analyzeDrugCandidate (awaited at line 133) settles: lines 134-139 when it
\* returned, the catch block when it threw; then the finally block.
AnalysisSettled(r, o) ==
    /\ runs[r].pc = "analysis"
    /\ UNCHANGED <<impl, terminal, labVars>>
    /\ LET run == runs[r]
           res == analyzeDrugCandidate(run.input, o)
       IN  IF res.threw
           THEN /\ CatchPath(res.err, run.closureStage)
                /\ UNCHANGED pubChemDetails
                /\ runs' = [runs EXCEPT ![r] = Ended(run, run.resolution, "synthesis-failed")]
                /\ ev' = Event("synthesis-failed", r, run.moleculeData, o)
           ELSE /\ analysisResult' = res.val
                /\ toast' = "Analysis Complete"
                /\ loadingStage' = "idle"
                /\ isLoading' = FALSE
                /\ UNCHANGED <<pubChemDetails, error, activeTab>>
                /\ runs' = [runs EXCEPT ![r] = Ended(run, run.resolution, "done")]
                /\ ev' = Event("done", r, run.moleculeData, o)

\* The form with up to MaxRuns submissions, and one upstream answer of each kind.
Next ==
    \/ \E values \in FormInputs : Submit(values)
    \/ \E r \in RunIds : Validated(r)
    \/ \E r \in RunIds, resp \in FormCidResponses : CidSettled(r, resp)
    \/ \E r \in RunIds : DelayElapsed(r)
    \/ \E r \in RunIds, resp \in FormPropResponses : PropsSettled(r, resp)
    \/ \E r \in RunIds, o \in FlowOutcomes : AnalysisSettled(r, o)

Spec == Init /\ [][Next]_vars

\* A single submission, and every upstream answer.
SubmitFirst(values) == runs[1].pc = "unused" /\ Submit(values)

AdapterNext ==
    \/ \E values \in FormInputs : SubmitFirst(values)
    \/ Validated(1)
    \/ \E resp \in CidResponses : CidSettled(1, resp)
    \/ DelayElapsed(1)
    \/ \E resp \in PropResponses : PropsSettled(1, resp)
    \/ \E o \in FlowOutcomes : AnalysisSettled(1, o)

AdapterSpec == Init /\ [][AdapterNext]_vars

\* Every external call eventually settles, every timer fires, and a validation
\* that has started finishes: each is a task the event loop runs once it is due.
\* A run waits for one thing at a time, so this is fairness of its next step.
RunStep(r) ==
    \/ Validated(r)
    \/ \E resp \in FormCidResponses : CidSettled(r, resp)
    \/ DelayElapsed(r)
    \/ \E resp \in FormPropResponses : PropsSettled(r, resp)
    \/ \E o \in FlowOutcomes : AnalysisSettled(r, o)

Settles(r) == WF_vars(RunStep(r))

LiveSpec == Init /\ [][Next]_vars /\ \A r \in RunIds : Settles(r)

\* One lookup of the analysis as the adapter runs it; the key is the name or
\* structure the analysis was asked about.
Lookup(l, upstream) ==
    CASE l = "chembl" -> getDrugByName(Aspirin, upstream.chembl)
      [] l = "molprop" ->
            getMolpropAnalysis(AspirinSmiles, upstream.molprop.url, upstream.molprop.resp,
                               upstream.molprop.rnd)
      [] l = "deepPurpose" -> getDeepPurposeAnalysis(AspirinSmiles, upstream.deepPurpose)

\* The aggregator issues the three lookups together.
FanoutStart(upstream) ==
    /\ fanout.phase = "idle"
    /\ fanout' = Fanout("running", upstream, Lookups, Slots(JNull, JNull, JNull), FALSE)
    /\ UNCHANGED <<pipelineVars, impl, svc>>

\* One of the lookups settles, in any order: its record goes into its slot; a
\* lookup that returned null or threw leaves the slot absent.
LookupSettled(l) ==
    /\ fanout.phase = "running"
    /\ l \in fanout.pending
    /\ LET r == Lookup(l, fanout.upstream)
           pending == fanout.pending \ {l}
       IN  fanout' = [fanout EXCEPT
                         !.pending = pending,
                         !.phase = IF pending = {} THEN "done" ELSE "running",
                         !.slots[l] = IF r.threw THEN JNull ELSE r.val,
                         !.raised = @ \/ r.threw]
    /\ UNCHANGED <<pipelineVars, impl, svc>>

\* The composite result has been handed on.
FanoutDone ==
    /\ fanout.phase = "done"
    /\ fanout' = NoFanout
    /\ UNCHANGED <<pipelineVars, impl, svc>>

FanoutNext ==
    \/ \E upstream \in FanoutUpstreams : FanoutStart(upstream)
    \/ \E l \in Lookups : LookupSettled(l)
    \/ FanoutDone

FanoutSpec == Init /\ [][FanoutNext]_vars

\* The adapter functions called on their own.
Services ==
    {"getDrugByNameMock", "getDeepPurposeAnalysisMock", "getMolpropAnalysis",
     "getMoleculeBySmiles", "getDrugByName", "getDrugByNameDirect",
     "getDeepPurposeAnalysis"}

\* Entries a ChEMBL answer can carry as molecules[0], for part_000: complete,
\* without a string identifier, or with fields of another type.
ChemblMolecules ==
    {ChemblMolecule(id, n, ph, pr, JStr(<<"S", "m", "a", "l", "l">>)) :
        id \in {JStr(Chembl25), JUndef, JNull, JNum(25)},
        n \in {JStr(Aspirin), JNull, JNum(5)},
        ph \in {JNum(4), JNum(0), JNum(7), JNum(-1), JStr(<<"4">>), JStr(<<"I", "V">>),
                JNull, JUndef},
        pr \in {MoleculeProperties(JStr(<<"1", "8", "0">>), JStr(C9H8O4)),
                MoleculeProperties(JStr(<<"n", "/", "a">>), JNum(9)),
                JNull}}

\* Likewise for drugbank.ts.
ChemblEntries ==
    {ChemblEntry(id, n, ph, w, JStr(C9H8O4), JStr(<<"p", "a", "i", "n">>), t) :
        id \in {JStr(Chembl25), JUndef, JNull, JNum(25)},
        n \in {JStr(Aspirin), JNull, JNum(5)},
        ph \in {JNum(4), JNum(7), JStr(<<"4">>), JNull},
        w \in {JNum(180), JStr(<<"1", "8", "0">>)},
        t \in {JTrue, JUndef}}

\* What the Molprop endpoint can answer: a transport failure, an error status, a
\* body that is not JSON, null, or an object whose three properties are numbers
\* inside or outside their ranges, of another type, or missing.
MolpropResponses ==
    {MolpropResponse("reject", FALSE, "null", JNull),
     MolpropResponse("resolve", FALSE, "object", JNull),
     MolpropResponse("resolve", TRUE, "unparseable", JNull),
     MolpropResponse("resolve", TRUE, "object", JNull)}
    \cup {MolpropResponse("resolve", TRUE, "object", MolpropResult(l, so, tx)) :
            l \in {JNum(2500), JStr(<<"h", "i", "g", "h">>), JUndef},
            so \in {JNum(-3000), JNull, JUndef},
            tx \in {JNum(0), JNum(100), JNum(1000), JNum(1500), JNum(-100),
                    JStr(<<"0", ".", "1">>), JUndef}}

\* What deeppurposePrompt can come back with: an exception, no output, or an
\* output whose purpose is a string (or not) and whose confidence (hundredths)
\* is inside or outside [0, 1], of another type, or missing.
PromptResults ==
    {PromptResult("throws", JNull), PromptResult("returns", JNull)}
    \cup {PromptResult("returns", DeepPurposeResult(pp, c)) :
            pp \in {JStr(<<"N", "S", "A", "I", "D">>), JStr(<<>>), JUndef, JNum(3)},
            c \in {JNum(85), JNum(0), JNum(100), JNum(150), JNum(-10),
                   JStr(<<"h", "i", "g", "h">>), JUndef}}

\* The keys a function is called with, and the upstream answers it can meet.
ServiceKeys(fn) ==
    CASE fn = "getDrugByNameMock" ->
            {JStr(Aspirin), JStr(<<" ", "A", "S", "P", "I", "R", "I", "N", " ">>),
             JStr(Paracetamol), JStr(<<"x">>), JStr(<<" ">>), JUndef}
      [] fn = "getDeepPurposeAnalysisMock" ->
            {JStr(Benzene), JStr(AspirinSmiles), JStr(Kekule), JStr(<<"C", "C", "O">>)}
      [] fn = "getMolpropAnalysis" -> {JStr(Benzene), JStr(Kekule)}
      [] fn = "getMoleculeBySmiles" -> {JStr(Benzene), JStr(<<" ">>)}
      [] fn = "getDeepPurposeAnalysis" -> {JStr(Benzene)}
      [] OTHER -> {JStr(Aspirin)}

ServiceUpstreams(fn) ==
    CASE fn = "getMolpropAnalysis" ->
            {[url |-> u, resp |-> GoodMolprop.resp] : u \in {"unset", "default"}}
            \cup {[url |-> "custom", resp |-> r] : r \in MolpropResponses}
      [] fn = "getMoleculeBySmiles" ->
            [cid : FormCidResponses
                     \cup {CidResponse("response", TRUE, "object", FALSE, "list", c) :
                             c \in CidValues},
             prop : PropResponses]
      [] fn = "getDrugByName" ->
            {ChemblResponse("reject", 500, "null", GoodMolecule),
             ChemblResponse("resolve", 200, "empty", GoodMolecule),
             ChemblResponse("resolve", 200, "nullEntry", GoodMolecule)}
            \cup {ChemblResponse("resolve", 200, "entry", m) : m \in ChemblMolecules}
      [] fn = "getDrugByNameDirect" ->
            {ChemblResponse("reject", 500, "null", JNull),
             ChemblResponse("resolve", 200, "empty", JNull),
             ChemblResponse("resolve", 200, "nullEntry", JNull)}
            \cup {ChemblResponse("resolve", 200, "entry", m) : m \in ChemblEntries}
      [] fn = "getDeepPurposeAnalysis" -> PromptResults
      [] OTHER -> {"none"}

\* The values Math.random() gives during one call (only the property-prediction
\* placeholder draws any).
Draws(fn) ==
    IF fn = "getMolpropAnalysis" THEN MathRandom \X MathRandom \X MathRandom
    ELSE {<<0, 0, 0>>}

\* One call of an adapter function.
Invoke(fn, key, upstream, rnd) ==
    CASE fn = "getDrugByNameMock" -> getDrugByNameMock(key)
      [] fn = "getDeepPurposeAnalysisMock" -> getDeepPurposeAnalysisMock(key.s)
      [] fn = "getMolpropAnalysis" ->
            getMolpropAnalysis(key.s, upstream.url, upstream.resp, rnd)
      [] fn = "getMoleculeBySmiles" ->
            getMoleculeBySmiles(key.s, upstream.cid, upstream.prop)
      [] fn = "getDrugByName" -> getDrugByName(key.s, upstream)
      [] fn = "getDrugByNameDirect" -> getDrugByNameDirect(key.s, upstream)
      [] fn = "getDeepPurposeAnalysis" -> getDeepPurposeAnalysis(key.s, upstream)

\* A function is called: for the first time, or a second time with the key of
\* the first call while the upstream answers as it did then.
CallService(fn, key, upstream, rnd) ==
    /\ svc.calls < 2
    /\ svc.calls = 1 => (svc.fn = fn /\ svc.key = key /\ svc.upstream = upstream)
    /\ svc' = IF svc.calls = 0
              THEN ServiceCalls(fn, key, upstream, 1, Invoke(fn, key, upstream, rnd),
                                Return(JNull))
              ELSE [svc EXCEPT !.calls = 2, !.second = Invoke(fn, key, upstream, rnd)]
    /\ UNCHANGED <<pipelineVars, impl, fanout>>

\* Both results have been compared; the next pair of calls can be made.
ServiceIdle ==
    /\ svc.calls = 2
    /\ svc' = NoCalls
    /\ UNCHANGED <<pipelineVars, impl, fanout>>

ServiceNext ==
    \/ \E fn \in Services : \E key \in ServiceKeys(fn), upstream \in ServiceUpstreams(fn),
                               rnd \in Draws(fn) :
           CallService(fn, key, upstream, rnd)
    \/ ServiceIdle

ServiceSpec == Init /\ [][ServiceNext]_vars

\* ------------------------------------------------------------------------
\* Properties of the analysis pipeline.
\* ------------------------------------------------------------------------

\* C1: within one run, the analysis call is issued at most once, and only after
\* the structure resolution of that same run has returned a non-null record; a
\* run whose resolution returned null never issues it.
C1_AnalysisOnlyAfterRecord ==
    \A r \in RunIds :
        /\ runs[r].analysisCalls <= 1
        /\ runs[r].analysisCalls > 0 => runs[r].resolution = "record"
        /\ runs[r].pc = "analysis" =>
               runs[r].analysisCalls = 1 /\ runs[r].moleculeData # JNull
        /\ runs[r].outcome = "resolution-failed" => runs[r].analysisCalls = 0

\* One run has ended on a null resolution without an analysis call, another has
\* issued its analysis call after a record.
C1_Witness ==
    \E r1, r2 \in RunIds :
        /\ runs[r1].outcome = "resolution-failed"
        /\ runs[r1].cidCalls + runs[r1].propCalls > 0
        /\ runs[r1].analysisCalls = 0
        /\ runs[r2].resolution = "record"
        /\ runs[r2].analysisCalls = 1

\* C2: once a run has ended on a failed resolution, the form shows the error,
\* no structure, no analysis, is not loading and is in stage idle, and stays so
\* until the next run starts.
C2_ResolutionFailureTerminal ==
    terminal =>
        /\ error = PubChemError
        /\ pubChemDetails = JNull
        /\ analysisResult = JNull
        /\ ~isLoading
        /\ loadingStage = "idle"

\* C3: whatever the upstream answers (transport failure, error status, body
\* that does not parse, body of another shape), the structure adapter
\* completes with a record or with null; it never throws into onSubmit.
C3_AdapterNeverThrows ==
    /\ ev.kind # "exception"
    /\ \A r \in RunIds : runs[r].resolution # "threw" /\ runs[r].outcome # "exception"

\* A catch block of the adapter has handled an exception and the run has ended
\* on a null resolution.
C3_Witness ==
    /\ ev.kind = "resolution-failed"
    /\ ev.caught
    /\ runs[1].outcome = "resolution-failed"

\* C4: every record the structure adapter returns has a finite positive
\* molecular weight, a non-empty formula and canonical SMILES, and a cid.
C4_RecordWellFormed ==
    LET WellFormedRecord(m) ==
            /\ m.molecularWeight.t = "number"
            /\ m.molecularWeight.k = "fin"
            /\ m.molecularWeight.n > 0
            /\ m.molecularFormula.t = "string" /\ m.molecularFormula.s # <<>>
            /\ m.canonicalSmiles.t = "string" /\ m.canonicalSmiles.s # <<>>
            /\ m.cid.t \notin {"undefined", "null"}
    IN  /\ pubChemDetails # JNull => WellFormedRecord(pubChemDetails)
        /\ \A r \in RunIds :
               runs[r].moleculeData # JNull => WellFormedRecord(runs[r].moleculeData)

\* C5: when a run ends on a failed analysis, the structure shown is still
\* exactly the record this run resolved, the error is set and there is no
\* analysis result.
C5_SynthesisFailureKeepsStructure ==
    ev.kind = "synthesis-failed" =>
        /\ pubChemDetails = ev.record
        /\ error # NoError
        /\ analysisResult = JNull

\* Lines 296-298 and 314-316: what the ChEMBL and DeepPurpose panels are given.
ChemblPanelData == analysisResult # JNull /\ analysisResult.chemblData

DeepPurposePanelData == analysisResult # JNull /\ analysisResult.deepPurposeData

\* C6: when a run ends on a failed analysis, the aggregate data gathered before
\* the failure (ChEMBL record, DeepPurpose predictions) is still given to the
\* presentation.
C6_AggregateDataSurvives ==
    ev.kind = "synthesis-failed" =>
        /\ ev.chembl => ChemblPanelData
        /\ ev.deepPurpose => DeepPurposePanelData

\* C7: an analysis whose call succeeded but whose narrative is empty or absent
\* ends the run as a failed analysis (error set, no result, no "Analysis
\* Complete"), never as done.
C7_EmptyNarrativeFails ==
    (ev.kind \in {"done", "synthesis-failed"} /\ ev.call = "ok" /\ ~Truthy(ev.narrative)) =>
        /\ ev.kind = "synthesis-failed"
        /\ runs[ev.run].outcome = "synthesis-failed"
        /\ error = "AI model did not generate an analysis"
        /\ analysisResult = JNull
        /\ toast # "Analysis Complete"

\* A run has just ended on an analysis that returned without a narrative.
C7_Witness ==
    /\ ev.kind = "synthesis-failed"
    /\ ev.call = "ok"
    /\ ~Truthy(ev.narrative)
    /\ error # NoError

\* C8: at most one run is in flight at any time, whatever the interleaving of
\* submit events and validations.
C8_OneRunInFlight == Cardinality({r \in RunIds : Active(r)}) <= 1

\* C9: a completion of an older run that arrives after a newer run has started
\* writes nothing to pubChemDetails, analysisResult, error, loadingStage or
\* isLoading.
C9_StaleCompletionIgnored ==
    [][\A r \in RunIds :
           LET NewerStarted ==
                   \E q \in RunIds :
                       q > r /\ (Active(q) \/ runs[q].cidCalls + runs[q].propCalls > 0)
           IN  (Active(r) /\ runs'[r] # runs[r] /\ NewerStarted) =>
                   UNCHANGED <<pubChemDetails, analysisResult, error, loadingStage,
                               isLoading>>]_vars

\* C10: the pipeline only moves idle -> pubchem -> {idle | analysis -> idle};
\* analysis is entered only from pubchem with a record stored, and a run that
\* has just ended is exactly one of failed (error set, no result) and done
\* (result set, no error).
C10_PipelineTransitions ==
    [][LET StageTransition ==
               \/ loadingStage' = loadingStage
               \/ loadingStage = "idle" /\ loadingStage' = "pubchem"
               \/ loadingStage = "pubchem" /\ loadingStage' = "idle"
               \/ /\ loadingStage = "pubchem"
                  /\ loadingStage' = "analysis"
                  /\ pubChemDetails' # JNull
               \/ loadingStage = "analysis" /\ loadingStage' = "idle"
           EndedOneWay ==
               /\ ev'.kind \in {"resolution-failed", "synthesis-failed", "exception"} =>
                      error' # NoError /\ analysisResult' = JNull
               /\ ev'.kind = "done" => error' = NoError /\ analysisResult' # JNull
       IN  StageTransition /\ EndedOneWay]_vars

\* C11: in the two-request lookup, the property request is issued only after
\* the identifier request has returned a positive CID and at least 200 ms have
\* then passed; a lookup whose identifier request gave no CID neither waits nor
\* issues a property request.
C11_DelayBeforeProperties ==
    \A r \in RunIds :
        impl = "twoStep" =>
            /\ runs[r].propCalls > 0 =>
                   /\ runs[r].cidCalls = 1
                   /\ ~NotPositiveNumber(runs[r].cid)
                   /\ runs[r].waited >= 200
            /\ runs[r].pc = "delay" => runs[r].propCalls = 0 /\ runs[r].cid # JNull
            /\ runs[r].cid = JNull => runs[r].propCalls = 0 /\ runs[r].waited = 0

\* One two-request lookup has issued its property request after the delay,
\* another has ended on an identifier request that gave no CID.
C11_Witness ==
    /\ impl = "twoStep"
    /\ \E r1, r2 \in RunIds :
           /\ runs[r1].propCalls = 1 /\ runs[r1].waited >= 200
           /\ runs[r2].outcome = "resolution-failed"
           /\ runs[r2].cidCalls = 1 /\ runs[r2].propCalls = 0

\* C12: a run whose structure string is empty after trimming (empty, or white
\* space only) issues no request to any external source.
C12_BlankIssuesNoRequest ==
    \A r \in RunIds :
        (runs[r].pc \notin {"unused", "ended"} /\ Trim(runs[r].values.smiles) = <<>>) =>
            runs[r].cidCalls + runs[r].propCalls + runs[r].analysisCalls = 0

\* C13: a submission whose structure string is empty after trimming, or whose
\* query has fewer than 5 characters, is rejected before the pipeline starts:
\* the form state is left as it was (stage idle, no loading, no PubChem error)
\* and the run ends as rejected.
C13_InvalidInputRejected ==
    [][\A r \in RunIds :
           LET values == runs[r].values
               invalid == Trim(values.smiles) = <<>> \/ Len(values.query) < 5
           IN  (runs[r].pc = "validating" /\ invalid /\ runs'[r] # runs[r]) =>
                   /\ runs'[r].outcome = "rejected"
                   /\ runs'[r].cidCalls + runs'[r].propCalls = 0
                   /\ UNCHANGED formVars]_vars

\* C14: when exactly one of the three secondary lookups fails, whatever the
\* order they settle in, the other two slots of the composite result are
\* populated, the failing one is absent, and no lookup has thrown.
C14_LookupsIndependent ==
    LET good == [chembl |-> {GoodChembl}, molprop |-> {GoodMolprop, MockMolprop},
                 deepPurpose |-> {GoodDeepPurpose}]
        failing == {l \in Lookups : fanout.upstream[l] \notin good[l]}
    IN  (fanout.phase = "done" /\ Cardinality(failing) = 1) =>
            /\ \A l \in Lookups \ failing : fanout.slots[l] # JNull
            /\ \A l \in failing : fanout.slots[l] = JNull
            /\ ~fanout.raised

\* The analysis is done, the ChEMBL lookup alone failed, and the other two
\* slots are populated.
C14_Witness ==
    /\ fanout.phase = "done"
    /\ fanout.upstream.chembl # GoodChembl
    /\ fanout.slots.chembl = JNull
    /\ fanout.slots.molprop # JNull
    /\ fanout.slots.deepPurpose # JNull

\* Line 168: isAnalysisRunning.
isAnalysisRunning == loadingStage = "analysis"

\* Lines 296 and 302: which cards the ChEMBL tab renders.
ChemblPanel ==
    [card |-> isAnalysisRunning \/ ChemblPanelData,
     noData |-> ~isLoading /\ analysisResult # JNull /\ ~analysisResult.chemblData]

\* Lines 314 and 320: which cards the DeepPurpose tab renders.
DeepPurposePanel ==
    [card |-> isAnalysisRunning \/ DeepPurposePanelData,
     noData |-> ~isLoading /\ analysisResult # JNull /\ ~analysisResult.deepPurposeData]

\* C15: when the analysis returns a narrative with the ChEMBL and/or the
\* DeepPurpose data absent, the run ends as done with no error, the narrative is
\* stored, and each absent slot is shown as its "no data" card and nothing else.
C15_AbsentSlotIsNoError ==
    (ev.kind \in {"done", "synthesis-failed"} /\ ev.call = "ok" /\ Truthy(ev.narrative)
        /\ (~ev.chembl \/ ~ev.deepPurpose)) =>
        /\ ev.kind = "done"
        /\ runs[ev.run].outcome = "done"
        /\ error = NoError
        /\ analysisResult # JNull
        /\ analysisResult.synthesizedAnalysis = ev.narrative
        /\ ~ev.chembl => (ChemblPanel.noData /\ ~ChemblPanel.card)
        /\ ~ev.deepPurpose => (DeepPurposePanel.noData /\ ~DeepPurposePanel.card)

\* C16: whenever an analysis result is held, a structure record is held too, and
\* it is the record resolved by the run that produced the result: the step that
\* stores the result leaves that run's record in pubChemDetails, and no later
\* step replaces the record while the result is kept.
C16_ResultOnlyWithItsRecord ==
    [][analysisResult' # JNull =>
          /\ pubChemDetails' # JNull
          /\ IF ev'.kind = "done" /\ ev' # ev
             THEN pubChemDetails' = ev'.record
             ELSE analysisResult # JNull /\ pubChemDetails' = pubChemDetails]_vars

\* C17: every accepted submission eventually ends, provided every call settles:
\* a run whose values passed validation reaches its end as done or failed, and
\* at that point the form is no longer loading and its stage is idle, on the
\* success, resolution-failure and synthesis-failure paths alike.
C17_AcceptedRunEnds ==
    \A r \in RunIds :
        ((runs[r].pc = "validating" /\ formSchema(runs[r].values)) \/ Active(r))
            ~> (/\ runs[r].pc = "ended"
                /\ runs[r].outcome \in {"done", "resolution-failed", "synthesis-failed",
                                        "exception"}
                /\ ~isLoading
                /\ loadingStage = "idle")

\* A run that was waiting for its analysis has ended on a synthesis failure and
\* the form is idle again.
C17_Witness ==
    /\ ev.kind = "synthesis-failed"
    /\ runs[ev.run].pc = "ended"
    /\ runs[ev.run].analysisCalls = 1
    /\ ~isLoading
    /\ loadingStage = "idle"

\* C18: the placeholder adapters are deterministic: two calls of the placeholder
\* getDrugByName, of the placeholder getDeepPurposeAnalysis or of
\* getMolpropAnalysis without a configured URL, made with the same key, return
\* equal results, each a record or null and never an exception.
C18_MocksDeterministic ==
    (svc.calls = 2 /\ svc.fn \in {"getDrugByNameMock", "getDeepPurposeAnalysisMock",
                                  "getMolpropAnalysis"}) =>
        /\ ~svc.first.threw
        /\ ~svc.second.threw
        /\ svc.first.val = svc.second.val

C20_MismatchedPayloadIsNull ==
    (svc.calls >= 1 /\ svc.fn \in {"getDrugByName", "getDrugByNameDirect"}) =>
        LET m == svc.upstream.molecule
            WrongType(v, types) == v.t \notin (types \cup {"null", "undefined"})
            mismatched ==
                /\ svc.upstream.net = "resolve"
                /\ svc.upstream.status = 200
                /\ svc.upstream.body = "entry"
                /\ IF svc.fn = "getDrugByName"
                   THEN \/ ~ZString(m.molecule_chembl_id)
                        \/ WrongType(m.pref_name, {"string"})
                        \/ WrongType(m.max_phase, {"number", "string"})
                        \/ /\ m.molecule_properties # JNull
                           /\ WrongType(m.molecule_properties.full_molformula, {"string"})
                   ELSE \/ ~ZString(m.chembl_id)
                        \/ WrongType(m.pref_name, {"string"})
                        \/ WrongType(m.max_phase, {"number"})
                        \/ WrongType(m.mol_weight, {"number"})
        IN  /\ ~svc.first.threw
            /\ mismatched => svc.first.val = JNull
            /\ svc.first.val # JNull => DrugSchema(svc.first.val)

\* C21: every result of getMolpropAnalysis that is not null, without a
\* configured URL and with one, has logP, solubility and toxicityScore each
\* absent or a finite number, and toxicityScore, when present, within [0, 1]
\* (0 .. 1000 thousandths); an answer of the endpoint that breaks this gives null.
C21_MolpropValuesValid ==
    (svc.calls >= 1 /\ svc.fn = "getMolpropAnalysis" /\ svc.first.val # JNull) =>
        LET r == svc.first.val
            FiniteOrAbsent(v) == v.t = "undefined" \/ (v.t = "number" /\ v.k = "fin")
        IN  /\ FiniteOrAbsent(r.logP)
            /\ FiniteOrAbsent(r.solubility)
            /\ FiniteOrAbsent(r.toxicityScore)
            /\ r.toxicityScore.t = "number" =>
                   (r.toxicityScore.n >= 0 /\ r.toxicityScore.n <= 1000)

\* C22: every result of getDeepPurposeAnalysis that is not null (from the
\* placeholder's table, its generic fallback, or the prompt) has predictedPurpose
\* a string and confidence absent or a number within [0, 1] (0 .. 100
\* hundredths); an output of the prompt that breaks this gives null.
C22_DeepPurposeValuesValid ==
    (/\ svc.calls >= 1
     /\ svc.fn \in {"getDeepPurposeAnalysisMock", "getDeepPurposeAnalysis"}
     /\ svc.first.val # JNull) =>
        LET r == svc.first.val
        IN  /\ r.predictedPurpose.t = "string"
            /\ \/ r.confidence.t = "undefined"
               \/ /\ r.confidence.t = "number"
                  /\ r.confidence.k = "fin"
                  /\ r.confidence.n >= 0
                  /\ r.confidence.n <= 100

\* C23: every record getDrugByName returns has maxPhase absent or a whole number
\* from 0 to 4; a max_phase of null upstream gives an absent maxPhase, never 0.
C23_MaxPhaseInRange ==
    (/\ svc.calls >= 1
     /\ svc.fn \in {"getDrugByName", "getDrugByNameDirect"}
     /\ svc.first.val # JNull) =>
        LET maxPhase == svc.first.val.maxPhase
        IN  /\ \/ maxPhase.t \in {"undefined", "null"}
               \/ /\ maxPhase.t = "number"
                  /\ maxPhase.k = "fin"
                  /\ maxPhase.n \in 0 .. 4
            /\ svc.upstream.molecule.max_phase = JNull =>
                   maxPhase.t \in {"undefined", "null"}

\* C30: when ChEMBL answers 200 and the first molecule has a string identifier
\* (its other fields being of the right types), getDrugByName returns a record
\* with maxPhase absent, both when max_phase is null and when the molecule
\* has no max_phase field.
C30_HitWithoutPhase ==
    (/\ svc.calls >= 1
     /\ svc.fn = "getDrugByName"
     /\ svc.upstream.net = "resolve"
     /\ svc.upstream.status = 200
     /\ svc.upstream.body = "entry"
     /\ ZString(svc.upstream.molecule.molecule_chembl_id)
     /\ svc.upstream.molecule.pref_name.t \in {"string", "null"}
     /\ svc.upstream.molecule.molecule_properties
            = MoleculeProperties(JStr(<<"1", "8", "0">>), JStr(C9H8O4))
     /\ svc.upstream.molecule.max_phase \in {JNull, JUndef}) =>
        /\ svc.first.val # JNull
        /\ svc.first.val.maxPhase.t = "undefined"

\* C24: the formula heuristic only picks the text of the failure toast.  The
\* description is shown exactly in the step in which a run ends on a failed
\* resolution, and it is the "looks like a molecular formula" text exactly when
\* the run's input has no white space and holds an element symbol followed by a
\* count (two digits, or one digit from 2 to 9 that no letter or parenthesis
\* follows).  Values that pass validation always go on to resolution, and a run
\* whose resolution returned a record goes on to the analysis with that record.
C24_FormulaHintOnly ==
    [][ev' # ev =>
          LET r == ev'.run
              smiles == runs[r].values.smiles
              Letter(c) == IsCapital(c) \/ IsSmall(c)
              TwoDigits(j) ==
                  j + 1 <= Len(smiles) /\ smiles[j] \in Digits /\ smiles[j + 1] \in Digits
              Count(j) ==
                  /\ j <= Len(smiles)
                  /\ smiles[j] \in {"2", "3", "4", "5", "6", "7", "8", "9"}
                  /\ (j = Len(smiles) \/ ~(Letter(smiles[j + 1]) \/ smiles[j + 1] = "("))
              looksLikeFormula ==
                  /\ \A i \in 1 .. Len(smiles) : smiles[i] # " "
                  /\ \E i \in 1 .. Len(smiles) :
                        /\ IsCapital(smiles[i])
                        /\ \/ TwoDigits(i + 1)
                           \/ Count(i + 1)
                           \/ /\ i + 1 <= Len(smiles)
                              /\ IsSmall(smiles[i + 1])
                              /\ (TwoDigits(i + 2) \/ Count(i + 2))
          IN  /\ (ev'.description # "none") <=> (ev'.kind = "resolution-failed")
              /\ ev'.kind = "resolution-failed" =>
                     /\ runs[r].resolution = "pending"
                     /\ ev'.description =
                            IF looksLikeFormula THEN "looks like a molecular formula"
                            ELSE "Could not retrieve molecule details"
              /\ (runs[r].pc = "validating" /\ formSchema(runs[r].values)) =>
                     ev'.kind \in {"started", "resolution-failed"}
              /\ ev'.kind = "resolved" =>
                     /\ runs'[r].pc = "analysis"
                     /\ pubChemDetails' = ev'.record
                     /\ toast' = "PubChem Data Fetched"]_vars

\* A run whose input looks like a formula has ended on a failed resolution and
\* the toast said so.
C24_Witness ==
    /\ ev.kind = "resolution-failed"
    /\ ev.description = "looks like a molecular formula"
    /\ toast = "PubChem Error"

\* C25: a failed run shows the stage it failed in.  When a run has just ended on
\* a failed resolution, the error is the PubChem error and the active tab is
\* "pubchem"; when it has just ended on a failed analysis, the error is the one
\* the analysis call threw and the active tab is "analysis"; when an exception
\* ended it before any record was resolved, the active tab is "pubchem".
C25_FailureShowsItsStage ==
    /\ ev.kind = "resolution-failed" =>
           (error = PubChemError /\ activeTab = "pubchem")
    /\ ev.kind = "synthesis-failed" =>
           LET o == FlowOutcome(ev.call, ev.chembl, ev.deepPurpose, ev.narrative)
               thrown == analyzeDrugCandidate(AnalysisInput(ev.record, NoValues), o).err
           IN  error = thrown.message /\ activeTab = "analysis"
    /\ ev.kind = "exception" => activeTab = "pubchem"

\* C26: nothing is retried: in every run the identifier request, the property
\* request and the analysis call have each been issued at most once, whatever
\* came back.
C26_NothingRetried ==
    \A r \in RunIds :
        /\ runs[r].cidCalls <= 1
        /\ runs[r].propCalls <= 1
        /\ runs[r].analysisCalls <= 1

\* A run has ended on a failed resolution after its one identifier request.
C26_Witness ==
    \E r \in RunIds :
        /\ runs[r].pc = "ended"
        /\ runs[r].outcome = "resolution-failed"
        /\ runs[r].cidCalls = 1
        /\ runs[r].propCalls = 0

\* C27: the two loading flags agree in every state of the form: isLoading is
\* true exactly when loadingStage is not "idle".
C27_LoadingFlagsAgree == isLoading <=> (loadingStage # "idle")

\* C28: a run starts from a clean slate: while the stage
\* is "pubchem" the form holds no error, no analysis result and no structure
\* record, whatever the previous run left.
C28_CleanSlateWhileResolving ==
    loadingStage = "pubchem" =>
        /\ error = NoError
        /\ analysisResult = JNull
        /\ pubChemDetails = JNull

\* A run is resolving after an earlier run ended on a failure.
C28_Witness ==
    /\ loadingStage = "pubchem"
    /\ \E r \in RunIds : runs[r].pc \in {"cid", "delay", "props"}
    /\ \E q \in RunIds :
          runs[q].pc = "ended" /\ runs[q].outcome \in {"resolution-failed", "synthesis-failed"}

\* C29: the analysis call is made with the canonicalSmiles of the record that
\* resolution returned in the same run, not with the string the user typed, and
\* with the user's targetProtein and query as they were submitted.
C29_AnalysisAnchoredOnRecord ==
    \A r \in RunIds :
        runs[r].pc = "analysis" =>
            /\ runs[r].moleculeData # JNull
            /\ runs[r].input.smiles = runs[r].moleculeData.canonicalSmiles
            /\ runs[r].input.targetProtein = runs[r].values.targetProtein
            /\ runs[r].input.query = runs[r].values.query
            /\ (ev.kind = "resolved" /\ ev.run = r) => runs[r].moleculeData = ev.record

\* An analysis call is in flight whose structure string differs from the one
\* the user typed, and a target protein was given.
C29_Witness ==
    \E r \in RunIds :
        /\ runs[r].pc = "analysis"
        /\ runs[r].analysisCalls = 1
        /\ runs[r].input.smiles # JStr(runs[r].values.smiles)
        /\ runs[r].input.targetProtein # <<>>

====
